---- MODULE Spec2Model ----
(***************************************************************************)
(* Model of services/baseapp.py: the SyncServerApp request dispatcher.     *)
(*                                                                         *)
(* Strings that the code takes apart (paths, config keys, host names) are  *)
(* sequences of tokens, so that rstrip, startswith and slicing are real    *)
(* operations.  A Python dict is a function; the order in which a dict is  *)
(* iterated is kept by modelling the config as a sequence of <<key,value>> *)
(* items with distinct keys.                                               *)
(***************************************************************************)
EXTENDS Integers, Sequences, FiniteSets, TLC

\* ------------------------------------------------------------------ bounds
MaxSlashes == 2      \* trailing slashes a request path may carry
MaxTime == 1         \* last value of the server clock
MaxItems == 3        \* items of a config in the host resolution runs
MaxUrls == 3         \* route descriptors handed to a constructor run
MaxThreads == 2      \* threads calling _host_specific at the same time

\* ------------------------------------------------------- program constants
DefaultRetryAfter == 1800

\* --------------------------------------------------------------- utilities
None == <<"<None>">>
EmptyDict == [x \in {} |-> None]

Range(s) == {s[i] : i \in DOMAIN s}

DictSet(d, k, v) == [x \in (DOMAIN d) \cup {k} |-> IF x = k THEN v ELSE d[x]]

\* dict.update(other)
DictUpdate(d, other) ==
    [x \in (DOMAIN d) \cup (DOMAIN other) |->
        IF x \in DOMAIN other THEN other[x] ELSE d[x]]

\* str(n)
Str(n) == <<"str", n>>

\* key.startswith(prefix)
StartsWith(s, prefix) ==
    /\ Len(s) >= Len(prefix)
    /\ SubSeq(s, 1, Len(prefix)) = prefix

\* key[n:]
SliceFrom(s, n) == SubSeq(s, n + 1, Len(s))

\* path.rstrip('/')
RECURSIVE rstrip(_)
rstrip(s) ==
    IF Len(s) > 0 /\ s[Len(s)] = "/" THEN rstrip(SubSeq(s, 1, Len(s) - 1)) ELSE s

\* config.get(key, default) on the item list of the config dict
ConfigGet(items, key, default) ==
    IF \E i \in DOMAIN items : items[i][1] = key
    THEN LET i == CHOOSE j \in DOMAIN items : items[j][1] = key IN items[i][2]
    ELSE default

\* ------------------------------------------------------------ config keys
KRetryAfter == <<"global.retry_after">>
KHeartbeat == <<"global.heartbeat_page">>
KDebug == <<"global.debug_page">>
KFoo == <<"foo">>

Example == <<"example.com">>
Other == <<"other.com">>
Hosts == {Example, Other}

\* 'host:%s.' % host
HostSection(host) == <<"host:">> \o host \o <<".">>
HostKey(host, key) == HostSection(host) \o key

\* ------------------------------------------------- host config resolution
\* The for loop of _host_specific, from item i on.
RECURSIVE ScanItems(_, _, _, _, _)
ScanItems(items, i, host_section, host_config, overriden_keys) ==
    IF i > Len(items) THEN host_config
    ELSE LET key == items[i][1]
             value == items[i][2]
         IN  IF key \in Range(overriden_keys)
             THEN ScanItems(items, i + 1, host_section, host_config,
                            overriden_keys)
             ELSE IF StartsWith(key, host_section)
                  THEN LET stripped == SliceFrom(key, Len(host_section))
                       IN  ScanItems(items, i + 1, host_section,
                                     DictSet(host_config, stripped, value),
                                     Append(overriden_keys, stripped))
                  ELSE ScanItems(items, i + 1, host_section,
                                 DictSet(host_config, key, value),
                                 overriden_keys)

\* The body of the for loop of _host_specific for item i: the mapping under
\* construction and the overridden keys after it.
ScanItem(items, i, host_section, host_config, overriden_keys) ==
    LET key == items[i][1]
        value == items[i][2]
    IN  IF key \in Range(overriden_keys)
        THEN [host_config |-> host_config, overriden_keys |-> overriden_keys]
        ELSE IF StartsWith(key, host_section)
             THEN LET stripped == SliceFrom(key, Len(host_section))
                  IN  [host_config |-> DictSet(host_config, stripped, value),
                       overriden_keys |-> Append(overriden_keys, stripped)]
             ELSE [host_config |-> DictSet(host_config, key, value),
                   overriden_keys |-> overriden_keys]

\* _host_specific without the look into the cache
host_specificUncached(cache, host, items) ==
    LET host_config == ScanItems(items, 1, HostSection(host), EmptyDict, <<>>)
    IN  [ret |-> host_config,
         cache |-> DictSet(cache, host, host_config),
         scanned |-> TRUE]

\* _host_specific(host, config) on the cache `cache`: the mapping returned,
\* the cache afterwards, and whether the config items were scanned.
_host_specific(cache, host, items) ==
    IF host \in DOMAIN cache
    THEN [ret |-> cache[host], cache |-> cache, scanned |-> FALSE]
    ELSE LET host_config == ScanItems(items, 1, HostSection(host), EmptyDict,
                                      <<>>)
         IN  [ret |-> host_config,
              cache |-> DictSet(cache, host, host_config),
              scanned |-> TRUE]

\* ------------------------------------------------------------- route table
\* A route descriptor is a 4- or 5-tuple (verbs, match, controller, action
\* [, extras]); its verbs are one string or a list of strings.
VerbStr(v) == <<"str", v>>
VerbList(l) == <<"list", l>>
IsStr(verbs) == verbs[1] = "str"

Placeholders == {"{id}"}
PlaceholderName(token) == IF token = "{id}" THEN "id" ELSE token

\* the body of the loop over urls in __init__: the arguments handed to
\* mapper.connect for one descriptor
ConnectArgs(u) ==
    LET verbs == IF IsStr(u[1]) THEN <<u[1][2]>> ELSE u[1][2]
        extras == IF Len(u) = 4 THEN EmptyDict ELSE u[5]
    IN  [verbs |-> verbs, pattern |-> u[2], controller |-> u[3],
         action |-> u[4], extras |-> extras]

\* ConnectAll taking 4-tuples only
RECURSIVE ConnectAllOnlyFour(_, _, _)
ConnectAllOnlyFour(descriptors, i, routes) ==
    IF i > Len(descriptors) THEN [error |-> "", routes |-> routes]
    ELSE IF Len(descriptors[i]) = 4
         THEN ConnectAllOnlyFour(descriptors, i + 1,
                                 Append(routes, ConnectArgs(descriptors[i])))
         ELSE [error |-> "ValueError", routes |-> routes]

\* the loop over urls in __init__: the routes connected, or a ValueError
RECURSIVE ConnectAll(_, _, _)
ConnectAll(descriptors, i, routes) ==
    IF i > Len(descriptors) THEN [error |-> "", routes |-> routes]
    ELSE IF Len(descriptors[i]) \in {4, 5}
         THEN ConnectAll(descriptors, i + 1,
                         Append(routes, ConnectArgs(descriptors[i])))
         ELSE [error |-> "ValueError", routes |-> routes]

\* routes.Mapper: a pattern matches a path when they have the same tokens,
\* a placeholder standing for any one segment
PatternMatches(pattern, path) ==
    /\ Len(pattern) = Len(path)
    /\ \A i \in DOMAIN pattern :
          \/ pattern[i] = path[i]
          \/ pattern[i] \in Placeholders /\ path[i] # "/"

RouteMatches(route, method, path) ==
    /\ method \in Range(route.verbs)
    /\ PatternMatches(route.pattern, path)

\* the match dict of a route for a path: controller, action, the extras and
\* the placeholder values
MatchDict(route, path) ==
    LET base == [controller |-> route.controller, action |-> route.action]
        names == {PlaceholderName(route.pattern[i]) :
                     i \in {j \in DOMAIN route.pattern :
                               route.pattern[j] \in Placeholders}}
        valueOf(n) ==
            path[CHOOSE i \in DOMAIN route.pattern :
                     /\ route.pattern[i] \in Placeholders
                     /\ PlaceholderName(route.pattern[i]) = n]
    IN  [k \in DOMAIN base \cup DOMAIN route.extras \cup names |->
            IF k \in names THEN valueOf(k)
            ELSE IF k \in DOMAIN base THEN base[k]
            ELSE route.extras[k]]

NoMatch == [matched |-> FALSE]

\* mapper.routematch(environ=environ): the first connected route, in
\* connection order, that matches the method and PATH_INFO
routematch(routes, environ) ==
    LET hits == {i \in DOMAIN routes :
                    RouteMatches(routes[i], environ.REQUEST_METHOD,
                                 environ.PATH_INFO)}
    IN  IF hits = {} THEN NoMatch
        ELSE LET first == CHOOSE i \in hits : \A j \in hits : i <= j
             IN  [matched |-> TRUE,
                  match |-> MatchDict(routes[first], environ.PATH_INFO),
                  route |-> first]

\* ----------------------------------------------------- controller registry
\* the controllers dict: controller name -> the actions the controller has
controllers == [items |-> {"show", "update"}, pages |-> {"view", "index"}]

\* _get_function with the two names taken for each other
get_functionSwapped(controller, action) ==
    IF action \notin DOMAIN controllers THEN None
    ELSE IF controller \in controllers[action]
         THEN <<controller, action>>
         ELSE None

\* _get_function(controller, action)
_get_function(controller, action) ==
    IF controller \notin DOMAIN controllers THEN None
    ELSE IF action \in controllers[controller]
         THEN <<controller, action>>
         ELSE None

\* ------------------------------------------------------------------ inputs
Methods == {"HEAD", "GET", "POST", "DELETE"}

RECURSIVE Slashes(_)
Slashes(n) == IF n = 0 THEN <<>> ELSE <<"/">> \o Slashes(n - 1)

PathBodies ==
    { <<>>, <<"/", "hb">>, <<"/", "dbg">>, <<"/", "__heartbeat__">>,
      <<"/", "items", "/", "1">>, <<"/", "nope">> }
Paths == {b \o Slashes(n) : b \in PathBodies, n \in 0..MaxSlashes}

\* request.GET: no query string, or one whose key 'id' is also the name of a
\* route placeholder
Queries == {EmptyDict, [verbose |-> "1", id |-> "9"]}

\* the configs the dispatcher is run with: the host-specific example of the
\* documentation, with the global options absent or set
FooItems == << <<HostKey(Example, KFoo), "bar">>, <<KFoo, "baz">> >>
RetryItems == << <<KRetryAfter, 60>>, <<HostKey(Example, KRetryAfter), 30>> >>
HeartbeatItems == << <<KHeartbeat, <<"hb">>>> >>
DebugItems == << <<KDebug, <<"dbg">>>> >>
\* the debug page set to the page that is the heartbeat page
SamePageItems == << <<KDebug, <<"hb">>>> >>
DispatchConfigs ==
    { FooItems \o h \o d :
        h \in {<<>>, HeartbeatItems},
        d \in {<<>>, RetryItems \o DebugItems} }
    \cup {FooItems \o HeartbeatItems \o SamePageItems}

\* the route descriptors handed to the constructor
Urls ==
    << <<VerbStr("GET"), <<"/", "items", "/", "{id}">>, "items", "show">>,
       <<VerbList(<<"POST", "DELETE">>), <<"/", "items", "/", "{id}">>,
         "items", "update">>,
       <<VerbList(<<"GET", "POST">>), <<"/", "hb">>, "pages", "view">>,
       <<VerbStr("GET"), <<"/", "dbg">>, "ghost", "view">>,
       <<VerbStr("GET"), <<"/", "__heartbeat__">>, "items", "missing">>,
       <<VerbStr("GET"), <<"/">>, "pages", "index", [section |-> "root"]>> >>

\* what an overridden _before_call may return
BeforeHeaderChoices == {EmptyDict, [x \in {"X-Pre"} |-> <<"lit", "1">>]}

\* what an action may do: return a text, a unicode text, a Response object
\* or something else, having set request.response or not, or raise
ActionReturns ==
    [type : {"str", "unicode", "Response", "NoneType"},
     sets_response : BOOLEAN]
ActionRaises ==
    [type : {"BackendError", "Exception"}, sets_response : {FALSE}]
ActionBehaviours == ActionReturns \cup ActionRaises
NoAction == [type |-> "none", sets_response |-> FALSE]

\* ------------------------------------------------------------------- state
VARIABLES
    config,          \* self.config, as the items of the dict in iteration order
    retry_after,     \* self.retry_after
    heartbeat_page,  \* self.heartbeat_page
    debug_page,      \* self.debug_page
    auth,            \* self.auth is not None
    urls,            \* the route descriptors handed to the constructor
    mapper,          \* self.mapper: the connected routes
    _host_configs,    \* self._host_configs
    now,             \* the server clock read by round_time()
    pc,              \* the position of __call__ in the request being handled
    request,         \* the request object
    before_headers,  \* local of __call__
    url,             \* local of __call__
    match,           \* local of __call__
    function,        \* local of __call__
    params,          \* local of __call__
    result,          \* local of __call__
    response,        \* what __call__ yields: returned or raised response
    error,           \* the exception that leaves __call__, if any
    trace,           \* the pipeline steps run for the request, in order
    env,             \* what the collaborators did for the request, and
                     \* whether the last call of _host_specific on its own
                     \* scanned the config
    received,        \* the request as it was received
    scans,           \* per host, the number of scans of the config items
    threads,         \* each thread's position and locals in _host_specific
    twin             \* outcome of the same request sent without the slash

app == <<config, retry_after, heartbeat_page, debug_page, auth, urls,
         mapper>>
locals == <<before_headers, url, match, function, params, result>>
vars == <<config, retry_after, heartbeat_page, debug_page, auth, urls,
          mapper, _host_configs, now, pc, request, before_headers, url, match,
          function, params, result, response, error, trace, env, received,
          scans, threads, twin>>

NoTime == -1
NoResponse == [kind |-> "none"]
NoEnv == [scanned |-> "none", before |-> EmptyDict, auth |-> "none",
          action |-> NoAction]
NoTwin == [set |-> FALSE]

\* a fresh request object
NewRequest(method, path, host, query) ==
    [method |-> method, path_info |-> path, host |-> host, GET |-> query,
     environ |-> [PATH_INFO |-> path, REQUEST_METHOD |-> method],
     server_time |-> NoTime, config |-> EmptyDict, sync_info |-> EmptyDict,
     response |-> NoResponse]

\* SyncServerApp.__init__
InitApp(items, descriptors, with_auth) ==
    /\ config = items
    /\ retry_after = ConfigGet(items, KRetryAfter, DefaultRetryAfter)
    /\ heartbeat_page = ConfigGet(items, KHeartbeat, <<"__heartbeat__">>)
    /\ debug_page = ConfigGet(items, KDebug, None)
    /\ auth = with_auth
    /\ urls = descriptors
    /\ mapper = ConnectAll(descriptors, 1, <<>>).routes
    /\ _host_configs = EmptyDict

InitIdle ==
    /\ now = 0
    /\ pc = "idle"
    /\ request = NewRequest("GET", <<>>, Example, EmptyDict)
    /\ before_headers = EmptyDict
    /\ url = <<>>
    /\ match = NoMatch
    /\ function = None
    /\ params = EmptyDict
    /\ result = NoResponse
    /\ response = NoResponse
    /\ error = ""
    /\ trace = <<>>
    /\ env = NoEnv
    /\ received = NewRequest("GET", <<>>, Example, EmptyDict)
    /\ scans = [h \in Hosts |-> 0]
    /\ twin = NoTwin

\* no thread is inside _host_specific
NoThreads == <<>>

Init ==
    /\ \E items \in DispatchConfigs, with_auth \in BOOLEAN :
          InitApp(items, Urls, with_auth)
    /\ InitIdle
    /\ threads = NoThreads

\* ---------------------------------------------------------------- responses
Body(text) == <<"str", text>>
Encode(text) == <<"utf8", text>>

\* a webob response: Response(...) or an HTTPException, which is one
MakeResponse(kind, status, id, body, headers, raised) ==
    [kind |-> kind, status |-> status, id |-> id, body |-> body,
     headers |-> headers, raised |-> raised]

HTTPBadRequest == MakeResponse("HTTPBadRequest", 400, "dispatcher", Body(""),
                               EmptyDict, TRUE)
HTTPNotFound(raised) == MakeResponse("HTTPNotFound", 404, "dispatcher",
                                     Body(""), EmptyDict, raised)
HTTPServiceUnavailable(seconds) ==
    MakeResponse("HTTPServiceUnavailable", 503, "dispatcher", Body(""),
                 [x \in {"Retry-After"} |-> Str(seconds)], TRUE)
\* the failure of auth.check
HTTPUnauthorized == MakeResponse("HTTPUnauthorized", 401, "auth", Body(""),
                                 EmptyDict, TRUE)
\* standard_controller._heartbeat(request), ._debug(request)
HeartbeatResponse == MakeResponse("heartbeat", 200, "standard_controller",
                                  Body(""), EmptyDict, FALSE)
DebugResponse == MakeResponse("debug", 200, "standard_controller",
                              Body("debug"), EmptyDict, FALSE)

\* the value an action returns
ActionResult(behaviour) ==
    IF behaviour.type = "Response"
    THEN MakeResponse("Response", 200, "action", Body("object"), EmptyDict,
                      FALSE)
    ELSE IF behaviour.type = "NoneType" THEN [kind |-> "NoneType"]
    ELSE [kind |-> behaviour.type, value |-> "text"]

\* request.response as an action sets it
RequestResponse == MakeResponse("Response", 200, "request", Body(""),
                                EmptyDict, FALSE)

\* _before_call(request), as the class or a subclass defines it
_before_call(req, choice) == choice

\* NotSupported with no method in the tuple
NotSupportedNone(method) == method \in {}

\* request.method in ('HEAD',)
NotSupported(method) == method \in {"HEAD"}

\* '/%s' % page
PagePath(page) == <<"/">> \o page

\* Params taking the query string whatever the method
ParamsAnyMethod(req) == req.GET

\* the GET mapping is filled on GET and DELETE requests
Params(req) == IF req.method \in {"GET", "DELETE"} THEN req.GET ELSE EmptyDict

\* BackendFailure taking retry_after from the config of the request's host
BackendFailureOfHost(req) ==
    HTTPServiceUnavailable(IF KRetryAfter \in DOMAIN req.config
                           THEN req.config[KRetryAfter]
                           ELSE DefaultRetryAfter)

\* except BackendError: raise HTTPServiceUnavailable(...) (lines 207-210)
BackendFailure(req) == HTTPServiceUnavailable(retry_after)

\* the response built from the result of the action (lines 212-227)
NormalizeResult(res, req) ==
    IF res.kind \in {"str", "unicode"}
    THEN IF req.response = NoResponse
         THEN MakeResponse("Response", 200, "dispatcher", Body(res.value),
                           EmptyDict, FALSE)
         ELSE IF res.kind = "str"
              THEN [req.response EXCEPT !.body = Body(res.value)]
              ELSE [req.response EXCEPT !.body = Encode(res.value)]
    ELSE res

\* FinalHeaders without the headers of the pre-hook
FinalHeadersStampOnly(headers, req, before) ==
    DictSet(headers, "X-Weave-Timestamp", Str(req.server_time))

\* the headers set on the final response (lines 230-231)
FinalHeaders(headers, req, before) ==
    DictUpdate(DictSet(headers, "X-Weave-Timestamp", Str(req.server_time)),
               before)

\* a response without its time stamp, to compare two requests' responses
SansTimestamp(resp) ==
    IF "headers" \in DOMAIN resp
    THEN [resp EXCEPT !.headers =
             [k \in (DOMAIN resp.headers) \ {"X-Weave-Timestamp"} |->
                 resp.headers[k]]]
    ELSE resp

\* the collaborators' part of env
Collaborators(e) == [before |-> e.before, auth |-> e.auth, action |-> e.action]

\* the outcome of the first sending is kept for comparison as long as the
\* collaborators answer the second sending as they answered the first
KeepTwin(same) == twin' = IF twin.set /\ same THEN twin ELSE NoTwin

\* ----------------------------------------------------------------- actions
\* the clock of round_time() advances
Tick ==
    /\ now < MaxTime
    /\ now' = now + 1
    /\ UNCHANGED <<app, threads, _host_configs, pc, request, locals, response,
                   error, trace, env, received, scans, twin>>

\* the request enters __call__ with freshly initialised locals
Enter(req) ==
    /\ request' = req
    /\ received' = req
    /\ pc' = "Received"
    /\ before_headers' = EmptyDict
    /\ url' = <<>>
    /\ match' = NoMatch
    /\ function' = None
    /\ params' = EmptyDict
    /\ result' = NoResponse
    /\ response' = NoResponse
    /\ error' = ""
    /\ trace' = <<>>
    /\ env' = NoEnv
    /\ UNCHANGED <<app, threads, _host_configs, now, scans>>

\* a request arrives at the dispatcher
Receive ==
    /\ pc = "idle"
    /\ \E method \in Methods, path \in Paths, host \in Hosts,
          query \in Queries :
          Enter(NewRequest(method, path, host, query))
    /\ twin' = NoTwin

\* the client sends the request just answered again, with a trailing slash
Resend ==
    /\ pc = "Responded"
    /\ received.path_info # <<>>
    /\ received.path_info[Len(received.path_info)] # "/"
    /\ Enter(NewRequest(received.method, received.path_info \o <<"/">>,
                        received.host, received.GET))
    /\ twin' = [set |-> TRUE, trace |-> trace, env |-> env, match |-> match,
                function |-> function, params |-> params,
                sync_info |-> request.sync_info,
                response |-> SansTimestamp(response), error |-> error]

\* the response is emitted and the request context discarded
Finish ==
    /\ pc = "Responded"
    /\ pc' = "idle"
    /\ request' = NewRequest("GET", <<>>, Example, EmptyDict)
    /\ received' = request'
    /\ before_headers' = EmptyDict
    /\ url' = <<>>
    /\ match' = NoMatch
    /\ function' = None
    /\ params' = EmptyDict
    /\ result' = NoResponse
    /\ response' = NoResponse
    /\ error' = ""
    /\ trace' = <<>>
    /\ env' = NoEnv
    /\ twin' = NoTwin
    /\ UNCHANGED <<app, threads, _host_configs, now, scans>>

\* lines 157-158
RejectHead ==
    /\ pc = "Received"
    /\ NotSupported(request.method)
    /\ response' = HTTPBadRequest
    /\ trace' = Append(trace, "bad_request")
    /\ pc' = "Responded"
    /\ UNCHANGED <<app, threads, _host_configs, now, request, locals, error,
                   env, received, scans, twin>>

\* line 160
StampServerTime ==
    /\ pc = "Received"
    /\ ~NotSupported(request.method)
    /\ request' = [request EXCEPT !.server_time = now]
    /\ trace' = Append(trace, "server_time")
    /\ pc' = "ServerTimeStamped"
    /\ UNCHANGED <<app, threads, _host_configs, now, locals, response, error,
                   env, received, scans, twin>>

\* ResolveHostConfig with a cache that holds the last host only
ResolveHostConfigForgetful ==
    /\ pc = "ServerTimeStamped"
    /\ LET r == _host_specific(_host_configs, request.host, config)
       IN  /\ request' = [request EXCEPT !.config = r.ret]
           /\ _host_configs' = DictSet(EmptyDict, request.host, r.ret)
    /\ trace' = Append(trace, "host_config")
    /\ pc' = "HostConfigResolved"
    /\ UNCHANGED <<app, threads, now, locals, response, error, env, received,
                   scans, twin>>

\* line 163
ResolveHostConfig ==
    /\ pc = "ServerTimeStamped"
    /\ LET r == _host_specific(_host_configs, request.host, config)
       IN  /\ request' = [request EXCEPT !.config = r.ret]
           /\ _host_configs' = r.cache
           /\ scans' = IF r.scanned
                       THEN [scans EXCEPT ![request.host] = @ + 1]
                       ELSE scans
    /\ trace' = Append(trace, "host_config")
    /\ pc' = "HostConfigResolved"
    /\ UNCHANGED <<app, threads, now, locals, response, error, env, received,
                   twin>>

\* line 166
BeforeCall ==
    /\ pc = "HostConfigResolved"
    /\ \E choice \in BeforeHeaderChoices :
          /\ before_headers' = _before_call(request, choice)
          /\ env' = [env EXCEPT !.before = choice]
          /\ KeepTwin(twin.env.before = choice)
    /\ trace' = Append(trace, "before_call")
    /\ pc' = "PreHookRun"
    /\ UNCHANGED <<app, threads, _host_configs, now, request, url, match,
                   function, params, result, response, error, received, scans>>

\* NormalizePath that keeps the stripped path to itself
NormalizePathLocal ==
    /\ pc = "PreHookRun"
    /\ url' = rstrip(request.path_info)
    /\ trace' = Append(trace, "normalize_path")
    /\ pc' = "PathNormalized"
    /\ UNCHANGED <<app, threads, _host_configs, now, request, before_headers,
                   match, function, params, result, response, error, env,
                   received, scans, twin>>

\* lines 170-172
NormalizePath ==
    /\ pc = "PreHookRun"
    /\ url' = rstrip(request.path_info)
    /\ request' = IF url' # <<>>
                  THEN [request EXCEPT !.path_info = url',
                                       !.environ.PATH_INFO = url']
                  ELSE request
    /\ trace' = Append(trace, "normalize_path")
    /\ pc' = "PathNormalized"
    /\ UNCHANGED <<app, threads, _host_configs, now, before_headers, match,
                   function, params, result, response, error, env, received,
                   scans, twin>>

\* IsHeartbeat on the path as it was received
IsHeartbeatUnstripped ==
    heartbeat_page # None /\ received.path_info = PagePath(heartbeat_page)

\* lines 174-175, 178
IsHeartbeat == heartbeat_page # None /\ url = PagePath(heartbeat_page)
IsDebug == debug_page # None /\ url = PagePath(debug_page)

\* lines 174-176
Heartbeat ==
    /\ pc = "PathNormalized"
    /\ IsHeartbeat
    /\ response' = HeartbeatResponse
    /\ trace' = Append(trace, "heartbeat")
    /\ pc' = "Responded"
    /\ UNCHANGED <<app, threads, _host_configs, now, request, locals, error,
                   env, received, scans, twin>>

\* Debug tested before the heartbeat page
DebugBeforeHeartbeat ==
    /\ pc = "PathNormalized"
    /\ IsDebug
    /\ response' = DebugResponse
    /\ trace' = Append(trace, "debug")
    /\ pc' = "Responded"
    /\ UNCHANGED <<app, threads, _host_configs, now, request, locals, error,
                   env, received, scans, twin>>

\* lines 178-179
Debug ==
    /\ pc = "PathNormalized"
    /\ ~IsHeartbeat
    /\ IsDebug
    /\ response' = DebugResponse
    /\ trace' = Append(trace, "debug")
    /\ pc' = "Responded"
    /\ UNCHANGED <<app, threads, _host_configs, now, request, locals, error,
                   env, received, scans, twin>>

\* RouteMatch without the test for None
RouteMatchUnchecked ==
    /\ pc = "PathNormalized"
    /\ ~IsHeartbeat
    /\ ~IsDebug
    /\ match' = routematch(mapper, request.environ)
    /\ trace' = Append(trace, "routematch")
    /\ pc' = "Routed"
    /\ UNCHANGED <<app, threads, _host_configs, now, request, before_headers,
                   url, function, params, result, response, error, env,
                   received, scans, twin>>

\* lines 181-186
RouteMatch ==
    /\ pc = "PathNormalized"
    /\ ~IsHeartbeat
    /\ ~IsDebug
    /\ match' = routematch(mapper, request.environ)
    /\ trace' = Append(trace, "routematch")
    /\ IF match'.matched
       THEN /\ pc' = "Routed"
            /\ UNCHANGED response
       ELSE /\ pc' = "Responded"
            /\ response' = HTTPNotFound(FALSE)
    /\ UNCHANGED <<app, threads, _host_configs, now, request, before_headers,
                   url, function, params, result, error, env, received, scans,
                   twin>>

\* AuthCheck that goes on after a failed check
AuthCheckIgnored ==
    /\ pc = "Routed"
    /\ auth
    /\ trace' = Append(trace, "auth")
    /\ \E ok \in BOOLEAN :
          /\ env' = [env EXCEPT !.auth = IF ok THEN "ok" ELSE "fail"]
          /\ KeepTwin(twin.env.auth = env'.auth)
    /\ pc' = "Authenticated"
    /\ UNCHANGED <<app, threads, _host_configs, now, request, locals, response,
                   error, received, scans>>

\* lines 189-190
AuthCheck ==
    /\ pc = "Routed"
    /\ auth
    /\ trace' = Append(trace, "auth")
    /\ \E ok \in BOOLEAN :
          /\ env' = [env EXCEPT !.auth = IF ok THEN "ok" ELSE "fail"]
          /\ KeepTwin(twin.env.auth = env'.auth)
          /\ IF ok
             THEN /\ pc' = "Authenticated"
                  /\ UNCHANGED response
             ELSE /\ pc' = "Responded"
                  /\ response' = HTTPUnauthorized
    /\ UNCHANGED <<app, threads, _host_configs, now, request, locals, error,
                   received, scans>>

\* GetFunction not waiting for the auth check
GetFunctionUnguarded ==
    /\ pc \in {"Routed", "Authenticated"}
    /\ function' = _get_function(match.match.controller, match.match.action)
    /\ trace' = Append(trace, "get_function")
    /\ IF function' = None
       THEN /\ pc' = "Responded"
            /\ response' = HTTPNotFound(TRUE)
            /\ UNCHANGED <<request, params>>
       ELSE /\ pc' = "Located"
            /\ request' = [request EXCEPT !.sync_info = match.match]
            /\ params' = Params(request)
            /\ UNCHANGED response
    /\ UNCHANGED <<app, threads, _host_configs, now, before_headers, url,
                   match, result, error, env, received, scans, twin>>

\* lines 192-203
GetFunction ==
    /\ \/ pc = "Authenticated"
       \/ pc = "Routed" /\ ~auth
    /\ function' = _get_function(match.match.controller, match.match.action)
    /\ trace' = Append(trace, "get_function")
    /\ IF function' = None
       THEN /\ pc' = "Responded"
            /\ response' = HTTPNotFound(TRUE)
            /\ UNCHANGED <<request, params>>
       ELSE /\ pc' = "Located"
            /\ request' = [request EXCEPT !.sync_info = match.match]
            /\ params' = Params(request)
            /\ UNCHANGED response
    /\ UNCHANGED <<app, threads, _host_configs, now, before_headers, url,
                   match, result, error, env, received, scans, twin>>

\* Invoke with an except clause that catches every exception
InvokeCatchingAll ==
    /\ pc = "Located"
    /\ trace' = Append(trace, "action")
    /\ \E behaviour \in ActionBehaviours :
          /\ env' = [env EXCEPT !.action = behaviour]
          /\ KeepTwin(twin.env.action = behaviour)
          /\ IF behaviour.type \in {"BackendError", "Exception"}
             THEN /\ response' = BackendFailure(request)
                  /\ pc' = "Responded"
                  /\ UNCHANGED <<request, result, error>>
             ELSE IF behaviour.type = "Exception"
             THEN /\ error' = "Exception"
                  /\ pc' = "Responded"
                  /\ UNCHANGED <<request, result, response>>
             ELSE /\ result' = ActionResult(behaviour)
                  /\ request' = IF behaviour.sets_response
                                THEN [request EXCEPT
                                         !.response = RequestResponse]
                                ELSE request
                  /\ pc' = "Invoked"
                  /\ UNCHANGED <<response, error>>
    /\ UNCHANGED <<app, threads, _host_configs, now, before_headers, url,
                   match, function, params, received, scans>>

\* lines 205-210
Invoke ==
    /\ pc = "Located"
    /\ trace' = Append(trace, "action")
    /\ \E behaviour \in ActionBehaviours :
          /\ env' = [env EXCEPT !.action = behaviour]
          /\ KeepTwin(twin.env.action = behaviour)
          /\ IF behaviour.type = "BackendError"
             THEN /\ response' = BackendFailure(request)
                  /\ pc' = "Responded"
                  /\ UNCHANGED <<request, result, error>>
             ELSE IF behaviour.type = "Exception"
             THEN /\ error' = "Exception"
                  /\ pc' = "Responded"
                  /\ UNCHANGED <<request, result, response>>
             ELSE /\ result' = ActionResult(behaviour)
                  /\ request' = IF behaviour.sets_response
                                THEN [request EXCEPT
                                         !.response = RequestResponse]
                                ELSE request
                  /\ pc' = "Invoked"
                  /\ UNCHANGED <<response, error>>
    /\ UNCHANGED <<app, threads, _host_configs, now, before_headers, url,
                   match, function, params, received, scans>>

\* lines 212-232
Respond ==
    /\ pc = "Invoked"
    /\ LET normalized == NormalizeResult(result, request)
       IN  IF normalized.kind = "NoneType"
           THEN /\ error' = "AttributeError"
                /\ trace' = Append(trace, "normalize_result")
                /\ UNCHANGED response
           ELSE /\ response' =
                      [normalized EXCEPT
                          !.headers = FinalHeaders(@, request, before_headers)]
                /\ trace' = trace \o <<"normalize_result", "headers">>
                /\ UNCHANGED error
    /\ pc' = "Responded"
    /\ UNCHANGED <<app, threads, _host_configs, now, request, locals, env,
                   received, scans, twin>>

Next ==
    \/ Tick
    \/ Receive
    \/ Resend
    \/ Finish
    \/ RejectHead
    \/ StampServerTime
    \/ ResolveHostConfig
    \/ BeforeCall
    \/ NormalizePath
    \/ Heartbeat
    \/ Debug
    \/ RouteMatch
    \/ AuthCheck
    \/ GetFunction
    \/ Invoke
    \/ Respond

Spec == Init /\ [][Next]_vars

\* ------------------------------------------- host config resolution alone
\* The items a config is made of: the generic key foo, its override for each
\* host, an override of an override, and a global option.
HostItems ==
    { <<KFoo, "baz">>,
      <<HostKey(Example, KFoo), "bar">>,
      <<HostKey(Other, KFoo), "qux">>,
      <<HostKey(Example, HostKey(Example, KFoo)), "quux">>,
      <<KRetryAfter, 60>> }

\* every config of at most n of these items, in every iteration order
RECURSIVE Arrangements(_)
Arrangements(n) ==
    IF n = 0 THEN {<<>>}
    ELSE LET shorter == Arrangements(n - 1)
         IN  shorter \cup
             {Append(items, item) :
                 <<items, item>> \in
                     {x \in shorter \X HostItems : x[2] \notin Range(x[1])}}
HostConfigs == Arrangements(MaxItems)

InitHost ==
    /\ \E items \in HostConfigs : InitApp(items, Urls, TRUE)
    /\ InitIdle
    /\ threads = NoThreads

\* _host_specific(host, self.config), called on its own
HostSpecificCall ==
    /\ pc = "idle"
    /\ \E host \in Hosts :
          LET r == _host_specific(_host_configs, host, config)
          IN  /\ request' = [request EXCEPT !.host = host, !.config = r.ret]
              /\ _host_configs' = r.cache
              /\ scans' = IF r.scanned
                          THEN [scans EXCEPT ![host] = @ + 1]
                          ELSE scans
              /\ env' = [env EXCEPT
                            !.scanned = IF r.scanned THEN "yes" ELSE "no"]
    /\ UNCHANGED <<app, threads, now, pc, locals, response, error, trace,
                   received, twin>>

NextHost == HostSpecificCall

SpecHost == InitHost /\ [][NextHost]_vars

\* ------------------------------------------------------------------ claims
HasKey(items, key) == \E i \in DOMAIN items : items[i][1] = key
Keys(items) == {items[i][1] : i \in DOMAIN items}
Ran(step) == \E i \in DOMAIN trace : trace[i] = step
Count(step) == Cardinality({i \in DOMAIN trace : trace[i] = step})
Position(step) == CHOOSE i \in DOMAIN trace : trace[i] = step

\* C7: whenever the config holds both the key 'host:<h>.<k>' and the key
\* '<k>', the mapping resolved for h has the host-specific value under k,
\* whatever the order of the items; and the mapping resolved for a host
\* that has no key 'host:<h2>.<k>' has the generic value under k.
HostSpecificValueWins ==
    \A h \in DOMAIN _host_configs : \A k \in Keys(config) :
        IF HasKey(config, HostKey(h, k))
        THEN _host_configs[h][k] = ConfigGet(config, HostKey(h, k), None)
        ELSE StartsWith(k, HostSection(h)) \/
             _host_configs[h][k] = ConfigGet(config, k, None)

\* the heartbeat path of the running dispatcher
HeartbeatPath == <<"/">> \o heartbeat_page
InFlight == pc \notin {"idle"}
Normalized == Ran("normalize_path")

\* C1: a HEAD request, whatever its path and host, ends in the bad-request
\* rejection and no later step of the pipeline runs for it: no server time
\* is stamped, the host-config cache is left as it was, and the pre-hook,
\* the special-page check, the route matcher, the auth check and the action
\* are not reached.
HeadRejectedFirst ==
    [][(pc' # "idle" /\ received'.method = "HEAD") =>
          /\ pc' \in {"Received", "Responded"}
          /\ pc' = "Responded" =>
                /\ response' = HTTPBadRequest
                /\ response'.status = 400
                /\ trace' = <<"bad_request">>
          /\ pc' = "Received" => trace' = <<>>
          /\ request'.server_time = NoTime
          /\ _host_configs' = _host_configs
          /\ scans' = scans
          /\ error' = ""]_vars

HeadRejectedWitness ==
    /\ pc = "Responded"
    /\ received.method = "HEAD"
    /\ rstrip(received.path_info) = HeartbeatPath
    /\ received.host \notin DOMAIN _host_configs
    /\ response.kind = "HTTPBadRequest"

\* C2: a request that is not HEAD and whose normalized path is '/' + the
\* heartbeat page gets the heartbeat response, and neither the route
\* matcher nor the auth gate nor an action runs for it, also when a
\* connected route matches the path and an auth gate is configured.
HeartbeatShortCircuits ==
    (InFlight /\ received.method # "HEAD" /\ Normalized
        /\ rstrip(received.path_info) = HeartbeatPath) =>
        /\ pc \in {"PathNormalized", "Responded"}
        /\ pc = "Responded" =>
              /\ response = HeartbeatResponse
              /\ error = ""
        /\ ~Ran("routematch")
        /\ ~Ran("auth")
        /\ ~Ran("get_function")
        /\ ~Ran("action")

HeartbeatWitness ==
    /\ pc = "Responded"
    /\ response.kind = "heartbeat"
    /\ auth
    /\ received.path_info = HeartbeatPath \o <<"/">>
    /\ routematch(mapper, request.environ).matched

\* C3: with an auth gate configured, an action is invoked only after
\* auth.check has been called exactly once for the request, after the
\* route matched, and has returned normally; when the check fails its
\* failure is what the request ends in, and neither the action nor the
\* normalization of a response happens.
AuthGatesAction ==
    auth =>
        /\ Ran("action") =>
              /\ Count("auth") = 1
              /\ env.auth = "ok"
              /\ match.matched
              /\ Position("routematch") < Position("auth")
              /\ Position("auth") < Position("action")
        /\ Ran("get_function") => Count("auth") = 1 /\ env.auth = "ok"
        /\ Count("auth") <= 1
        /\ env.auth = "fail" =>
              /\ pc = "Responded"
              /\ response = HTTPUnauthorized
              /\ error = ""
              /\ ~Ran("get_function")
              /\ ~Ran("action")
              /\ ~Ran("normalize_result")
              /\ ~Ran("headers")

AuthPassedWitness ==
    /\ auth
    /\ env.auth = "ok"
    /\ Ran("action")
    /\ pc = "Responded"

AuthFailedWitness ==
    /\ auth
    /\ env.auth = "fail"
    /\ pc = "Responded"
    /\ response.status = 401

\* C4: a request that is not HEAD, is not for a special page and matches no
\* route ends in the not-found response; the auth gate and the actions are
\* not invoked and no exception leaves the dispatcher.
NoRouteIsNotFound ==
    (Ran("routematch") /\ ~match.matched) =>
        /\ pc = "Responded"
        /\ response.kind = "HTTPNotFound"
        /\ response.status = 404
        /\ error = ""
        /\ ~Ran("auth")
        /\ ~Ran("get_function")
        /\ ~Ran("action")

NoRouteWitness ==
    /\ pc = "Responded"
    /\ auth
    /\ received.method = "GET"
    /\ received.path_info = <<"/", "nope">>
    /\ response.status = 404

\* the connected routes that match the request as the route matcher sees it
Hits == {i \in DOMAIN mapper :
            RouteMatches(mapper[i], request.method, request.environ.PATH_INFO)}

BackendErrorIsUnavailable ==
    env.action.type = "BackendError" =>
        /\ pc = "Responded"
        /\ response.kind = "HTTPServiceUnavailable"
        /\ response.status = 503
        /\ response.headers["Retry-After"] =
              Str(IF HasKey(config, KRetryAfter)
                  THEN ConfigGet(config, KRetryAfter, None)
                  ELSE 1800)
        /\ "X-Weave-Timestamp" \notin DOMAIN response.headers
        /\ error = ""
        /\ Count("action") = 1
        /\ trace[Len(trace)] = "action"
        /\ ~Ran("normalize_result")
        /\ ~Ran("headers")

BackendErrorWitness ==
    /\ pc = "Responded"
    /\ env.action.type = "BackendError"
    /\ received.host = Example
    /\ HasKey(config, KRetryAfter)
    /\ request.config[KRetryAfter] # retry_after
    /\ response.status = 503

\* C8: the mapping _host_specific returns for a host is the one a scan of
\* the config gives, and once a host has been resolved every later call
\* for it, among calls for this and other hosts, returns the mapping
\* cached by the first call and does not scan the config again.
ResolvedOnceThenCached ==
    [][/\ \A h \in DOMAIN _host_configs :
             /\ h \in DOMAIN _host_configs'
             /\ _host_configs'[h] = _host_configs[h]
             /\ scans'[h] = scans[h]
       /\ \A h \in DOMAIN _host_configs' : scans'[h] = 1
       /\ env'.scanned # "none" =>
             /\ request'.config = _host_configs'[request'.host]
             /\ request'.config =
                   ScanItems(config, 1, HostSection(request'.host),
                             EmptyDict, <<>>)
       /\ env'.scanned = "no" => request'.host \in DOMAIN _host_configs
      ]_vars

CachedCallWitness ==
    /\ env.scanned = "no"
    /\ DOMAIN _host_configs = Hosts
    /\ _host_configs[Example] # _host_configs[Other]
    /\ request.config = _host_configs[request.host]

\* C9: every response the dispatcher produces, on every exit of the
\* pipeline, carries the X-Weave-Timestamp header set to the server time
\* stamped at the start of the dispatch of the request.
EveryResponseTimestamped ==
    (pc = "Responded" /\ response # NoResponse) =>
        /\ "X-Weave-Timestamp" \in DOMAIN response.headers
        /\ response.headers["X-Weave-Timestamp"] = Str(request.server_time)
        /\ request.server_time # NoTime

\* is s a prefix of t
IsPrefix(s, t) == Len(s) <= Len(t) /\ SubSeq(t, 1, Len(s)) = s

\* C10: a request to p + '/' and the request to p, for a path p that is not
\* the root and does not end in a slash, and the same method, host and
\* query, take the same exit of the pipeline and reach the same controller
\* and action with the same match result and parameters, the collaborators
\* answering both alike; the root path '/' normalizes to the empty string
\* and the request path is then left as it is.
TrailingSlashRoutesAlike ==
    /\ twin.set =>
          /\ IsPrefix(trace, twin.trace)
          /\ trace = twin.trace =>
                /\ pc = "Responded"
                /\ Collaborators(env) = Collaborators(twin.env)
                /\ match = twin.match
                /\ function = twin.function
                /\ params = twin.params
                /\ request.sync_info = twin.sync_info
                /\ SansTimestamp(response) = twin.response
                /\ error = twin.error
          /\ pc = "Responded" => trace = twin.trace
    /\ (Normalized /\ received.path_info = <<"/">>) =>
          /\ url = <<>>
          /\ request.path_info = <<"/">>
          /\ request.environ.PATH_INFO = <<"/">>

TrailingSlashWitness ==
    /\ twin.set
    /\ pc = "Responded"
    /\ received.path_info = <<"/", "items", "/", "1", "/">>
    /\ Ran("headers")
    /\ twin.sync_info["id"] = "1"
    /\ params # EmptyDict

RootPathWitness ==
    /\ pc = "Responded"
    /\ received.path_info = <<"/">>
    /\ Ran("action")
    /\ function = <<"pages", "index">>

\* ------------------------------------------------------ construction alone
\* route descriptors of 3 to 6 elements, their verbs a string or a list
Descriptors ==
    { <<VerbStr("GET"), <<"/", "hb">>, "pages">>,
      <<VerbStr("GET"), <<"/", "hb">>, "pages", "view">>,
      <<VerbList(<<"GET", "POST">>), <<"/", "items", "/", "{id}">>, "items",
        "show">>,
      <<VerbStr("DELETE"), <<"/", "items", "/", "{id}">>, "items", "update",
        [section |-> "items"]>>,
      <<VerbList(<<"POST">>), <<"/">>, "pages", "index",
        [section |-> "root"], "more">> }

RECURSIVE UrlLists(_)
UrlLists(n) ==
    IF n = 0 THEN {<<>>}
    ELSE LET shorter == UrlLists(n - 1)
         IN  shorter \cup {Append(l, u) : l \in shorter, u \in Descriptors}

\* the constructor has its arguments and has not yet looked at the urls
InitNew ==
    /\ \E descriptors \in UrlLists(MaxUrls) :
          /\ config = FooItems
          /\ retry_after = ConfigGet(FooItems, KRetryAfter, DefaultRetryAfter)
          /\ heartbeat_page = ConfigGet(FooItems, KHeartbeat,
                                        <<"__heartbeat__">>)
          /\ debug_page = ConfigGet(FooItems, KDebug, None)
          /\ auth = TRUE
          /\ urls = descriptors
          /\ mapper = <<>>
          /\ _host_configs = EmptyDict
    /\ now = 0
    /\ pc = "new"
    /\ request = NewRequest("GET", <<>>, Example, EmptyDict)
    /\ before_headers = EmptyDict
    /\ url = <<>>
    /\ match = NoMatch
    /\ function = None
    /\ params = EmptyDict
    /\ result = NoResponse
    /\ response = NoResponse
    /\ error = ""
    /\ trace = <<>>
    /\ env = NoEnv
    /\ received = NewRequest("GET", <<>>, Example, EmptyDict)
    /\ scans = [h \in Hosts |-> 0]
    /\ threads = NoThreads
    /\ twin = NoTwin

\* lines 85-101: the loop over the route descriptors
Construct ==
    /\ pc = "new"
    /\ LET r == ConnectAll(urls, 1, <<>>)
       IN  /\ mapper' = r.routes
           /\ error' = r.error
           /\ pc' = IF r.error = "" THEN "idle" ELSE "failed"
    /\ UNCHANGED <<config, retry_after, heartbeat_page, debug_page, auth, urls,
                   _host_configs, now, request, locals, response, trace, env,
                   received, scans, threads, twin>>

NextNew == Construct

SpecNew == InitNew /\ [][NextNew]_vars

\* C11: the construction fails with a ValueError exactly when one of the
\* route descriptors has a number of elements other than 4 or 5; when it
\* does not fail every descriptor is connected, in order, and a descriptor
\* whose verbs are one string is connected with the list of that one string.
ValueErrorIffBadArity ==
    pc # "new" =>
        /\ error = "ValueError" <=>
              \E i \in DOMAIN urls : Len(urls[i]) # 4 /\ Len(urls[i]) # 5
        /\ pc = "failed" <=> error = "ValueError"
        /\ pc = "idle" <=> error = ""
        /\ error = "" =>
              /\ Len(mapper) = Len(urls)
              /\ \A i \in DOMAIN urls :
                    /\ urls[i][1][1] = "str" =>
                          mapper[i].verbs = <<urls[i][1][2]>>
                    /\ urls[i][1][1] = "list" =>
                          mapper[i].verbs = urls[i][1][2]
                    /\ mapper[i].controller = urls[i][3]
                    /\ mapper[i].action = urls[i][4]

ConstructedWitness ==
    /\ pc = "idle"
    /\ Len(urls) = 3
    /\ \E i \in DOMAIN urls : Len(urls[i]) = 5 /\ urls[i][1][1] = "str"
    /\ \E i \in DOMAIN urls : Len(urls[i]) = 4 /\ urls[i][1][1] = "list"

ValueErrorWitness ==
    /\ pc = "failed"
    /\ error = "ValueError"
    /\ Len(urls[1]) = 4
    /\ Len(urls[2]) = 6

\* C12: when a route matched and its controller is not in the registry, or
\* the controller has no such action, the request ends in the not-found
\* response, whose status is that of the no-route case; no action is
\* invoked, and the lookup happens only after the auth check, when an auth
\* gate is configured, has returned normally.
UnknownActionIsNotFound ==
    Ran("get_function") =>
        LET c == match.match.controller
            a == match.match.action
            unknown == c \notin DOMAIN controllers \/ a \notin controllers[c]
        IN  /\ match.matched
            /\ auth => /\ Count("auth") = 1
                       /\ env.auth = "ok"
                       /\ Position("auth") < Position("get_function")
            /\ unknown =>
                  /\ pc = "Responded"
                  /\ function = None
                  /\ response.kind = "HTTPNotFound"
                  /\ response.status = HTTPNotFound(FALSE).status
                  /\ response.status = 404
                  /\ error = ""
                  /\ ~Ran("action")
                  /\ ~Ran("normalize_result")

UnknownControllerWitness ==
    /\ pc = "Responded"
    /\ auth
    /\ env.auth = "ok"
    /\ Ran("get_function")
    /\ match.match.controller = "ghost"
    /\ response.status = 404

MissingActionWitness ==
    /\ pc = "Responded"
    /\ ~auth
    /\ Ran("get_function")
    /\ match.match.controller = "items"
    /\ match.match.action = "missing"
    /\ response.status = 404

\* C13: the normalization removes exactly one trailing slash, so that of
\* two or more trailing slashes only the last is removed, and afterwards
\* the path compared with the special pages, request.path_info and
\* environ['PATH_INFO'] are one and the same string, for the root path '/'
\* as for every other path.
StripsExactlyOneSlash ==
    Normalized =>
        LET path == received.path_info
            stripped == IF path # <<>> /\ path[Len(path)] = "/"
                        THEN SubSeq(path, 1, Len(path) - 1)
                        ELSE path
        IN  /\ url = stripped
            /\ request.path_info = url
            /\ request.environ.PATH_INFO = url

\* C14: the parameters the action is invoked with are the key/value pairs
\* of the request's query string when the method is GET or DELETE and are
\* empty for every other method, also when the request has a query string;
\* the placeholder values of the route match are not among them and reach
\* the action only in the match result attached to the request.
QueryParamsOnly ==
    Ran("action") =>
        /\ received.method \in {"GET", "DELETE"} => params = received.GET
        /\ received.method \notin {"GET", "DELETE"} => params = EmptyDict
        /\ \A k \in DOMAIN params :
              k \in DOMAIN received.GET /\ params[k] = received.GET[k]
        /\ request.sync_info = match.match
        /\ \A k \in DOMAIN match.match :
              k \notin DOMAIN received.GET => k \notin DOMAIN params

QueryIgnoredWitness ==
    /\ Ran("action")
    /\ received.method = "POST"
    /\ received.GET # EmptyDict
    /\ params = EmptyDict
    /\ function = <<"items", "update">>
    /\ request.sync_info["id"] = "1"

QueryPassedWitness ==
    /\ Ran("action")
    /\ received.method = "DELETE"
    /\ function = <<"items", "update">>
    /\ DOMAIN params = {"id", "verbose"}
    /\ params["id"] = "9"
    /\ params["verbose"] = "1"
    /\ request.sync_info["id"] = "1"

\* ------------------------------------- host config resolution by threads
\* Threads of one process call _host_specific on the shared dispatcher; a
\* thread switch can happen between any two statements.
Threads == 1..MaxThreads

Ready == [pc |-> "ready", host |-> Example, i |-> 0,
          host_config |-> EmptyDict, overriden_keys |-> <<>>,
          ret |-> EmptyDict, scanned |-> FALSE]

\* the configs in which a host-specific value overrides a generic one
OverridingConfigs ==
    {items \in HostConfigs :
        /\ \E i \in DOMAIN items : items[i][1] = KFoo
        /\ \E i \in DOMAIN items : items[i][1] = HostKey(Example, KFoo)}

InitThreads ==
    /\ \E items \in OverridingConfigs : InitApp(items, Urls, TRUE)
    /\ InitIdle
    /\ threads = [t \in Threads |-> Ready]

\* line 118, and lines 122-124 when the host is not in the cache
Check(t) ==
    /\ threads[t].pc = "ready"
    /\ \E host \in Hosts :
          threads' = [threads EXCEPT ![t] =
                         IF host \in DOMAIN _host_configs
                         THEN [Ready EXCEPT !.pc = "hit", !.host = host]
                         ELSE [Ready EXCEPT !.pc = "loop", !.host = host,
                                            !.i = 1, !.scanned = TRUE]]
    /\ UNCHANGED <<app, _host_configs, now, pc, request, locals, response,
                   error, trace, env, received, scans, twin>>

\* line 119
Fetch(t) ==
    /\ threads[t].pc = "hit"
    /\ threads' = [threads EXCEPT ![t].pc = "done",
                                  ![t].ret = _host_configs[threads[t].host]]
    /\ UNCHANGED <<app, _host_configs, now, pc, request, locals, response,
                   error, trace, env, received, scans, twin>>

\* Scan storing the mapping under construction in the cache at every item
ScanPublishing(t) ==
    /\ threads[t].pc = "loop"
    /\ threads[t].i <= Len(config)
    /\ LET th == threads[t]
           r == ScanItem(config, th.i, HostSection(th.host), th.host_config,
                         th.overriden_keys)
       IN  /\ threads' = [threads EXCEPT
                             ![t].i = th.i + 1,
                             ![t].host_config = r.host_config,
                             ![t].overriden_keys = r.overriden_keys]
           /\ _host_configs' = DictSet(_host_configs, th.host, r.host_config)
    /\ UNCHANGED <<app, now, pc, request, locals, response, error, trace,
                   env, received, scans, twin>>

\* lines 125-132: one turn of the for loop
Scan(t) ==
    /\ threads[t].pc = "loop"
    /\ threads[t].i <= Len(config)
    /\ LET th == threads[t]
           r == ScanItem(config, th.i, HostSection(th.host), th.host_config,
                         th.overriden_keys)
       IN  threads' = [threads EXCEPT
                          ![t].i = th.i + 1,
                          ![t].host_config = r.host_config,
                          ![t].overriden_keys = r.overriden_keys]
    /\ UNCHANGED <<app, _host_configs, now, pc, request, locals, response,
                   error, trace, env, received, scans, twin>>

\* lines 134-135
Store(t) ==
    /\ threads[t].pc = "loop"
    /\ threads[t].i > Len(config)
    /\ _host_configs' = DictSet(_host_configs, threads[t].host,
                                threads[t].host_config)
    /\ threads' = [threads EXCEPT ![t].pc = "done",
                                  ![t].ret = threads[t].host_config]
    /\ UNCHANGED <<app, now, pc, request, locals, response, error, trace,
                   env, received, scans, twin>>

NextThreads ==
    \E t \in Threads :
        \/ Check(t)
        \/ Fetch(t)
        \/ Scan(t)
        \/ Store(t)

SpecThreads == InitThreads /\ [][NextThreads]_vars

\* the mapping a call alone on an empty cache resolves for the host
Sequential(host) == _host_specific(EmptyDict, host, config).ret

\* C15: when threads resolve the same host, unseen before, at the same
\* time, then in every interleaving each of them returns a mapping whose
\* contents are those of the sequential result, the cache entry of the
\* host has those contents whenever it exists, and no thread gets a mapping
\* that is still under construction; the scan may be done more than once.
ConcurrentCallsAgree ==
    /\ \A t \in Threads :
          threads[t].pc = "done" =>
              threads[t].ret = Sequential(threads[t].host)
    /\ \A h \in DOMAIN _host_configs : _host_configs[h] = Sequential(h)
    /\ \A t, u \in Threads :
          (/\ threads[t].pc = "done"
           /\ threads[u].pc = "done"
           /\ threads[t].host = threads[u].host) =>
              threads[t].ret = threads[u].ret

DuplicatedScanWitness ==
    /\ \A t \in Threads :
          /\ threads[t].pc = "done"
          /\ threads[t].host = Example
          /\ threads[t].scanned
    /\ HasKey(config, HostKey(Example, KFoo))
    /\ HasKey(config, KFoo)
    /\ _host_configs[Example] = threads[1].ret

CacheHitWitness ==
    /\ threads[1].pc = "done"
    /\ threads[1].scanned
    /\ threads[2].pc = "done"
    /\ ~threads[2].scanned
    /\ threads[2].host = threads[1].host
    /\ Len(config) = MaxItems

\* C16: the normalization of the action's result does not abort the
\* request: whatever the action returned, a text becomes the body of a
\* response, a Response object is returned as that object, a value of
\* another type is coerced into the body of a response, and the request
\* ends with a response that has the X-Weave-Timestamp header.
NormalizationNeverAborts ==
    (pc = "Responded" /\ Ran("normalize_result")) =>
        /\ error = ""
        /\ response # NoResponse
        /\ "X-Weave-Timestamp" \in DOMAIN response.headers
        /\ env.action.type = "str" => response.body = Body(result.value)
        /\ env.action.type = "Response" => response.id = result.id

\* C17: a failure an action raises that is not BackendError is not caught:
\* the request ends in that same failure, no service-unavailable response
\* or other response is made of it, and neither the time stamp nor a
\* header of the pre-hook is attached to anything.
OtherFailurePropagates ==
    (env.action.type = "Exception" /\ Ran("action")) =>
        /\ pc = "Responded"
        /\ error = "Exception"
        /\ response = NoResponse
        /\ result = NoResponse
        /\ Count("action") = 1
        /\ ~Ran("normalize_result")
        /\ ~Ran("headers")

OtherFailureWitness ==
    /\ pc = "Responded"
    /\ error = "Exception"
    /\ env.action.type = "Exception"
    /\ before_headers # EmptyDict
    /\ request.server_time # NoTime
    /\ function = <<"items", "show">>

\* C18: with no global.debug_page in the config no request ends in the
\* debug response; with the page configured, a request that is not HEAD and
\* whose normalized path is '/' + the debug page ends in the debug response
\* and neither the route matcher nor the auth check nor an action runs for
\* it, except that when this path is the heartbeat path as well the
\* request ends in the heartbeat response.
DebugPageOnlyWhenConfigured ==
    /\ debug_page = None => (response.kind # "debug" /\ ~Ran("debug"))
    /\ (/\ debug_page # None
        /\ InFlight
        /\ received.method # "HEAD"
        /\ Normalized
        /\ rstrip(received.path_info) = <<"/">> \o debug_page) =>
           /\ pc \in {"PathNormalized", "Responded"}
           /\ ~Ran("routematch")
           /\ ~Ran("auth")
           /\ ~Ran("get_function")
           /\ ~Ran("action")
           /\ pc = "Responded" =>
                 /\ error = ""
                 /\ IF rstrip(received.path_info) = HeartbeatPath
                    THEN response = HeartbeatResponse /\ ~Ran("debug")
                    ELSE response = DebugResponse /\ Ran("debug")

DebugWitness ==
    /\ pc = "Responded"
    /\ response.kind = "debug"
    /\ auth
    /\ received.method = "GET"
    /\ routematch(mapper, request.environ).matched

HeartbeatWinsWitness ==
    /\ pc = "Responded"
    /\ debug_page = heartbeat_page
    /\ received.path_info = <<"/">> \o debug_page \o <<"/">>
    /\ response.kind = "heartbeat"

NoDebugPageWitness ==
    /\ pc = "Responded"
    /\ debug_page = None
    /\ received.path_info = <<"/", "dbg">>
    /\ Ran("routematch")

\* C19: for a request that reaches the end of the general path, every
\* header the pre-hook returned is on the final response with the value the
\* pre-hook gave it, and so is the X-Weave-Timestamp header; the pre-hook
\* ran before the path was normalized and before the special pages, the
\* route matcher and the auth check were looked at.
PreHookHeadersKept ==
    Ran("headers") =>
        /\ pc = "Responded"
        /\ error = ""
        /\ before_headers = env.before
        /\ \A k \in DOMAIN env.before :
              /\ k \in DOMAIN response.headers
              /\ response.headers[k] = env.before[k]
        /\ "X-Weave-Timestamp" \in DOMAIN response.headers
        /\ Count("before_call") = 1
        /\ Position("before_call") < Position("normalize_path")
        /\ Position("before_call") < Position("routematch")
        /\ auth => Position("before_call") < Position("auth")
        /\ Position("before_call") < Position("action")

PreHookHeadersWitness ==
    /\ pc = "Responded"
    /\ Ran("headers")
    /\ auth
    /\ env.before # EmptyDict
    /\ env.action.type = "Response"
    /\ DOMAIN response.headers = {"X-Pre", "X-Weave-Timestamp"}

\* C20: in every step the base config stays as it is; the host-config cache
\* only gains entries: an entry present stays, with the same contents, and
\* an entry for host h is added only by the host-config step of a request
\* that is not HEAD and whose host is h; the entries of the other hosts are
\* as they were.
CacheOnlyGains ==
    [][/\ config' = config
       /\ \A h \in DOMAIN _host_configs :
             /\ h \in DOMAIN _host_configs'
             /\ _host_configs'[h] = _host_configs[h]
       /\ \A h \in (DOMAIN _host_configs') \ (DOMAIN _host_configs) :
             /\ pc = "ServerTimeStamped"
             /\ pc' = "HostConfigResolved"
             /\ request.host = h
             /\ received.method # "HEAD"
             /\ request'.config = _host_configs'[h]
             /\ DOMAIN _host_configs' = (DOMAIN _host_configs) \cup {h}]_vars

BothHostsCachedWitness ==
    /\ pc = "HostConfigResolved"
    /\ request.host = Other
    /\ scans[Other] = 1
    /\ scans[Example] = 1
    /\ DOMAIN _host_configs = Hosts
    /\ _host_configs[Example][KFoo] = "bar"
    /\ _host_configs[Other][KFoo] = "baz"

====
